---- MODULE Spec2Model ----
(***************************************************************************)
(* Model of the menu engine of routerman (cli/actions.go): the action      *)
(* tree, the Context map, Action.GetValidChildren, the recursive           *)
(* interpreter RunMenuActions and the behaviours of the action nodes.      *)
(***************************************************************************)
EXTENDS Integers, Sequences, FiniteSets, TLC

VARIABLES
    ctx,      \* env.ctx: the Context map (key -> int), shared by every frame
    stack,    \* active RunMenuActions frames, outermost first
    pc,       \* position of the single control thread
    callArgs, \* the actions argument of the RunMenuActions call being entered
    res,      \* (Navigation, error) returned by the behaviour just run
    ret,      \* (Navigation, error) returned by the RunMenuActions call just left
    scr,      \* local variables of the behaviour that is running
    db,       \* the record store (users, bandwidth slots, devices)
    ev,       \* what the last step did: prompts, reads, fetches, invocations
    tok,      \* the token read by the last step
    failure,  \* the error of the first behaviour that failed, "nil" before
    gvcNode,  \* receiver of the last direct GetValidChildren call
    gvcCtx,   \* Context the last direct GetValidChildren call was given
    gvcOut    \* result of the last direct GetValidChildren call

vars == <<ctx, stack, pc, callArgs, res, ret, scr, db, ev, tok, failure,
          gvcNode, gvcCtx, gvcOut>>

(***************************************************************************)
(* Bounds of the model.                                                    *)
(***************************************************************************)
MaxUsers == 5
MaxSlots == 5
MaxDevices == 5
MaxAvail == 5
MaxStats == 5
MaxWrites == 1
MaxPage == 3
MaxCtxVal == 1

(***************************************************************************)
(* Constants of the program.                                               *)
(***************************************************************************)
ExitChoice == 99
QuitChoice == 999
pageSize == 5

NEXT == "NEXT"
BACK == "BACK"
REPEAT == "REPEAT"

ErrInvalidChoice == "invalid choice"
ErrInvalidInput == "invalid input"

Keys == {"userId", "slotId", "deviceId", "quit"}

(***************************************************************************)
(* Context: a Go map[string]int is a function on the set of bound keys.    *)
(***************************************************************************)
EmptyCtx == [k \in {} |-> 0]

Set(c, key, value) ==
    [k \in (DOMAIN c) \cup {key} |-> IF k = key THEN value ELSE c[k]]

Delete(c, key) == [k \in (DOMAIN c) \ {key} |-> c[k]]

\* ctx[key] with one result: the zero value when the key is absent
Lookup(c, key) == IF key \in DOMAIN c THEN c[key] ELSE 0

QuitProgram(c) == Lookup(c, "quit") > 0

(***************************************************************************)
(* The static action tree.                                                 *)
(***************************************************************************)
Nodes == {
    "RootActionManageUsers", "ActionRegisterUser", "ActionListUsers",
    "ActionListUserBandwidthSlots", "ActionAssignSlot", "ActionDeregisterUser",
    "ActionDeleteSlot", "ActionListAvailableSlots", "RootActionManageDevices",
    "ActionListDevices", "ActionShowConnectedDevices", "ActionExportARPBindings",
    "ActionExportDhcpAddressReservations", "ActionRegisterDevice",
    "ActionDeregisterDevice", "RootActionManageInternetAccess",
    "ActionListBlockedDevices", "ActionBlockDevice", "ActionUnblockDevice",
    "ActionQuit" }

Children(n) ==
    CASE n = "RootActionManageUsers" ->
            <<"ActionRegisterUser", "ActionListUsers">>
      [] n = "ActionListUsers" ->
            <<"ActionListUserBandwidthSlots", "ActionDeregisterUser",
              "ActionListDevices">>
      [] n = "ActionListUserBandwidthSlots" ->
            <<"ActionRegisterDevice", "ActionAssignSlot", "ActionDeleteSlot">>
      [] n = "RootActionManageDevices" ->
            <<"ActionListDevices", "ActionShowConnectedDevices",
              "ActionExportARPBindings", "ActionExportDhcpAddressReservations">>
      [] n = "ActionListDevices" -> <<"ActionDeregisterDevice">>
      [] n = "RootActionManageInternetAccess" ->
            <<"ActionShowConnectedDevices", "ActionListBlockedDevices",
              "ActionBlockDevice", "ActionUnblockDevice">>
      [] OTHER -> <<>>

RequiresContext(n) ==
    CASE n = "ActionListUserBandwidthSlots" -> <<"userId">>
      [] n = "ActionAssignSlot" -> <<"userId">>
      [] n = "ActionDeregisterUser" -> <<"userId">>
      [] n = "ActionDeleteSlot" -> <<"slotId">>
      [] n = "ActionRegisterDevice" -> <<"userId", "slotId">>
      [] n = "ActionDeregisterDevice" -> <<"deviceId">>
      [] OTHER -> <<>>

\* the Action field is nil for the three root nodes only
HasAction(n) ==
    n \notin {"RootActionManageUsers", "RootActionManageDevices",
              "RootActionManageInternetAccess"}

(***************************************************************************)
(* Action.GetValidChildren: the OUTER loop over Children and the inner     *)
(* loop over RequiresContext, as written.                                  *)
(***************************************************************************)
RECURSIVE KeysExistFrom(_, _, _)
\* inner loop from index i: FALSE at the first key that is not in c
KeysExistFrom(req, i, c) ==
    IF i > Len(req) THEN TRUE
    ELSE IF req[i] \notin DOMAIN c THEN FALSE
    ELSE KeysExistFrom(req, i + 1, c)

RECURSIVE KeysExistAny(_, _, _)
\* the inner loop with the test inverted: one bound key is enough
KeysExistAny(req, i, c) ==
    IF Len(req) = 0 THEN TRUE
    ELSE IF i > Len(req) THEN FALSE
    ELSE IF req[i] \in DOMAIN c THEN TRUE
    ELSE KeysExistAny(req, i + 1, c)

RECURSIVE ValidFrom(_, _, _, _)
ValidFrom(kids, i, c, acc) ==
    IF i > Len(kids) THEN acc
    ELSE IF Len(RequiresContext(kids[i])) > 0
            /\ ~KeysExistFrom(RequiresContext(kids[i]), 1, c)
         THEN ValidFrom(kids, i + 1, c, acc)
         ELSE ValidFrom(kids, i + 1, c, Append(acc, kids[i]))

RECURSIVE ValidFromAny(_, _, _, _)
ValidFromAny(kids, i, c, acc) ==
    IF i > Len(kids) THEN acc
    ELSE IF ~KeysExistAny(RequiresContext(kids[i]), 1, c)
         THEN ValidFromAny(kids, i + 1, c, acc)
         ELSE ValidFromAny(kids, i + 1, c, Append(acc, kids[i]))

GetValidChildrenAnyKey(n, c) == ValidFromAny(Children(n), 1, c, <<>>)

GetValidChildren(n, c) == ValidFrom(Children(n), 1, c, <<>>)

(***************************************************************************)
(* The record store (package storage) and the terminal helpers, as the     *)
(* engine relies on them.                                                  *)
(***************************************************************************)
Max(S) == CHOOSE x \in S : \A y \in S : y <= x

Min(S) == CHOOSE x \in S : \A y \in S : x <= y

RECURSIVE SortedSeq(_)
\* the ids of S in ascending order
SortedSeq(S) == IF S = {} THEN <<>> ELSE <<Min(S)>> \o SortedSeq(S \ {Min(S)})

\* page num (1-based) of size rows of an ordered sequence
Page(all, size, num) ==
    LET first == (num - 1) * size + 1
        last == IF num * size < Len(all) THEN num * size ELSE Len(all)
    IN  IF first > Len(all) THEN <<>> ELSE SubSeq(all, first, last)

Ids(records) == {r.id : r \in records}

ByUserId(records, userId) == {r \in records : r.userId = userId}

UserStoreReadMany(d, size, num) == Page(SortedSeq(d.users), size, num)

SlotStoreReadManyByUserId(d, userId, size, num) ==
    Page(SortedSeq(Ids(ByUserId(d.slots, userId))), size, num)

DeviceStoreReadManyByUserId(d, userId, size, num) ==
    Page(SortedSeq(Ids(ByUserId(d.devices, userId))), size, num)

DeviceStoreReadMany(d, size, num) == Page(SortedSeq(Ids(d.devices)), size, num)

\* a fresh id for a created record
NewId(ids) == IF ids = {} THEN 1 ELSE Max(ids) + 1

\* decimal numerals the operator types, by value (index - 1)
Numerals == <<"0", "1", "2", "3", "4", "5", "6", "7", "8", "9">>

Itoa(n) == Numerals[n + 1]

\* strconv.Atoi on one token: a numeral gives its value, anything else fails
Atoi(t) ==
    IF \E i \in 1..Len(Numerals) : Numerals[i] = t
    THEN [n |-> (CHOOSE i \in 1..Len(Numerals) : Numerals[i] = t) - 1, ok |-> TRUE]
    ELSE [n |-> 0, ok |-> FALSE]

\* tokens the operator can type at the menu prompt; "eof" is a read that fails
MenuTokens(max) == {Itoa(n) : n \in 1..(max + 1)} \cup {"b", "q", "x", "eof"}

\* GetChoiceInput(in, max): the parsed choice and the error
GetChoiceInput(t, max) ==
    IF t = "eof" THEN [choice |-> 0, err |-> "ErrIO"]
    ELSE IF t = "b" THEN [choice |-> ExitChoice, err |-> "nil"]
    ELSE IF t = "q" THEN [choice |-> QuitChoice, err |-> "nil"]
    ELSE IF ~Atoi(t).ok THEN [choice |-> 0, err |-> ErrInvalidInput]
    ELSE IF Atoi(t).n < 1 \/ Atoi(t).n > max
         THEN [choice |-> 0, err |-> ErrInvalidChoice]
    ELSE [choice |-> Atoi(t).n - 1, err |-> "nil"]

\* tokens the operator can type at the prompt of a list screen: the first,
\* the second and the last row, the number after the last row, the scroll
\* and quit letters, another word, and the end of the input
ListTokens(max) ==
    {Itoa(n) : n \in {1, 2, max, max + 1} \cap (1..(max + 1))}
    \cup {"n", "p", "q", "x", "eof"}

\* tokens the operator can type at a prompt that offers no rows to select
ScrollTokens == {"n", "p", "q", "x", "eof"}

\* the address range of an available slot, and the size of that range
MinAddress == "2"

MaxAddress == "3"

IsValidIPv4Address(t) == Atoi(t).ok

Ip2Int(t) == Atoi(t).n

Capacity == Ip2Int(MaxAddress) - Ip2Int(MinAddress) + 1

\* lines the operator can type as start IP: nothing, a word that is no
\* address, the address under the range, its first address, the address
\* over it, and the end of the input
IpTokens ==
    {"", "x", "eof", Itoa(Ip2Int(MinAddress) - 1), MinAddress,
     Itoa(Ip2Int(MaxAddress) + 1)}

\* lines the operator can type as number of devices
CountTokens == {"", "x", "eof", "0", Itoa(Capacity), Itoa(Capacity + 1)}

\* GetIntInput(in, default): the empty line gives the default
GetIntInput(t, default) ==
    IF t = "eof" THEN [n |-> 0, err |-> "ErrIO"]
    ELSE IF t = "" THEN [n |-> default, err |-> "nil"]
    ELSE IF ~Atoi(t).ok THEN [n |-> 0, err |-> ErrInvalidInput]
    ELSE [n |-> Atoi(t).n, err |-> "nil"]

\* GetChoice(choice, max): the 0-based position of a 1-based row number
GetChoice(t, max) ==
    IF ~Atoi(t).ok THEN [position |-> 0, err |-> ErrInvalidChoice]
    ELSE IF Atoi(t).n < 1 \/ Atoi(t).n > max
         THEN [position |-> 0, err |-> ErrInvalidChoice]
    ELSE [position |-> Atoi(t).n - 1, err |-> "nil"]

\* element i of a Go slice (0-based) held as a TLA+ sequence (1-based)
At(slice, i) == slice[i + 1]

(***************************************************************************)
(* Initial states.                                                         *)
(***************************************************************************)
\* the lengths of a list the router reports: empty, one entry, a full page,
\* and the most the router holds
Counts(max) == {0, 1, pageSize, max} \cap (0..max)

RootActions == <<"RootActionManageUsers", "RootActionManageDevices",
                 "RootActionManageInternetAccess", "ActionQuit">>

\* a store with users 1..n, m slots and d devices of user 1
Db(n, m, d) ==
    [users |-> 1..n,
     slots |-> {[id |-> i, userId |-> 1] : i \in 1..m},
     devices |-> {[id |-> i, userId |-> 1] : i \in 1..d},
     writes |-> 0]

InitDbs ==
    {Db(n, 0, 0) : n \in {0, MaxUsers - 2, MaxUsers}}
    \cup {Db(1, MaxSlots, 0), Db(1, 0, MaxDevices), Db(2, 1, 1)}

NoRes == [nav |-> "none", err |-> "nil"]

NoScr == [kind |-> "none"]

\* prompt: the menu was printed; read: a token was read; calls: collaborator
\* calls made; failed: calls that reported a failure after which the
\* behaviour went on; invoked: behaviour started; after, nav: behaviour whose
\* result the interpreter handled, and that result
NoEv == [prompt |-> FALSE, read |-> FALSE, calls |-> {}, failed |-> {},
         invoked |-> "none", after |-> "none", nav |-> "none"]

NoGvc == <<"none">>

Init ==
    /\ ctx \in {EmptyCtx, Set(EmptyCtx, "quit", 1)}
    /\ stack = <<>>
    /\ pc = "call"
    /\ callArgs = RootActions
    /\ res = NoRes
    /\ ret = NoRes
    /\ scr = NoScr
    /\ db \in InitDbs
    /\ ev = NoEv
    /\ tok = "none"
    /\ failure = "nil"
    /\ gvcNode = "none"
    /\ gvcCtx = EmptyCtx
    /\ gvcOut = NoGvc

gvcVars == <<gvcNode, gvcCtx, gvcOut>>

(***************************************************************************)
(* RunMenuActions.                                                         *)
(***************************************************************************)
Top == stack[Len(stack)]

Pop == SubSeq(stack, 1, Len(stack) - 1)

\* the chosen action of the innermost frame
Chosen == At(Top.actions, Top.choice)

\* a RunMenuActions call returns r to the frames stk that remain
Return(stk, r) ==
    /\ stack' = stk
    /\ ret' = r
    /\ pc' = IF Len(stk) = 0 THEN "done" ELSE "ret"
    /\ callArgs' = <<>>

\* children := action.GetValidChildren(env.ctx); recurse when there are any
Descend(stk, action, c) ==
    LET children == GetValidChildren(action, c)
    IN  /\ ret' = NoRes
        /\ IF Len(children) > 0
           THEN /\ pc' = "call"
                /\ callArgs' = children
                /\ stack' = stk
           ELSE /\ pc' = "prompt"
                /\ callArgs' = <<>>
                /\ stack' = [stk EXCEPT ![Len(stk)].choice = -1]

\* the loop continues with the next prompt of the same frame
Continue(stk) ==
    /\ stack' = [stk EXCEPT ![Len(stk)].choice = -1]
    /\ ret' = NoRes
    /\ pc' = "prompt"
    /\ callArgs' = <<>>

\* the errors of GetChoiceInput after which the loop prompts again
RecoverableChoiceOnly(err) == err = ErrInvalidChoice

Recoverable(err) == err = ErrInvalidChoice \/ err = ErrInvalidInput

\* entry without the quit check
RunMenuActions_Entry_NoQuitCheck ==
    /\ pc = "call"
    /\ Continue(Append(stack, [actions |-> callArgs, choice |-> -1]))
    /\ ev' = NoEv
    /\ tok' = "none"
    /\ UNCHANGED <<ctx, res, scr, db, failure, gvcVars>>

\* entry of RunMenuActions: the quit check, then the option list
RunMenuActions_Entry ==
    /\ pc = "call"
    /\ IF QuitProgram(ctx)
       THEN Return(stack, [nav |-> BACK, err |-> "nil"])
       ELSE Continue(Append(stack, [actions |-> callArgs, choice |-> -1]))
    /\ ev' = NoEv
    /\ tok' = "none"
    /\ UNCHANGED <<ctx, res, scr, db, failure, gvcVars>>

\* one prompt of the loop: read the choice and act on it, up to the behaviour
RunMenuActions_Choice ==
    /\ pc = "prompt"
    /\ \E t \in MenuTokens(Len(Top.actions)) :
         LET r == GetChoiceInput(t, Len(Top.actions))
             action == At(Top.actions, r.choice)
         IN  /\ tok' = t
             /\ ev' = [NoEv EXCEPT !.prompt = TRUE, !.read = TRUE]
             /\ IF r.err # "nil"
                THEN /\ IF Recoverable(r.err)
                        THEN Continue(stack)
                        ELSE Return(Pop, [nav |-> NEXT, err |-> r.err])
                     /\ ctx' = ctx
                ELSE IF r.choice = ExitChoice
                THEN Return(Pop, [nav |-> NEXT, err |-> "nil"]) /\ ctx' = ctx
                ELSE IF r.choice = QuitChoice
                THEN /\ ctx' = Set(ctx, "quit", 1)
                     /\ Return(Pop, [nav |-> NEXT, err |-> "nil"])
                ELSE IF action = "ActionQuit"
                THEN /\ ctx' = Set(ctx, "quit", 1)
                     /\ Return(Pop, [nav |-> NEXT, err |-> "nil"])
                ELSE IF HasAction(action)
                THEN /\ stack' = [stack EXCEPT ![Len(stack)].choice = r.choice]
                     /\ pc' = "invoke"
                     /\ ret' = NoRes
                     /\ callArgs' = <<>>
                     /\ ctx' = ctx
                ELSE /\ Descend([stack EXCEPT ![Len(stack)].choice = r.choice],
                                action, ctx)
                     /\ ctx' = ctx
    /\ UNCHANGED <<res, scr, db, failure, gvcVars>>

\* BACK handed on to the caller instead of ending this level only
RunMenuActions_AfterAction_BackPropagates ==
    /\ pc = "behaved"
    /\ IF res.err # "nil"
       THEN Return(Pop, [nav |-> NEXT, err |-> res.err])
       ELSE IF res.nav = BACK
       THEN Return(Pop, [nav |-> BACK, err |-> "nil"])
       ELSE IF res.nav = REPEAT
       THEN Continue(stack)
       ELSE Descend(stack, Chosen, ctx)
    /\ res' = NoRes
    /\ ev' = [NoEv EXCEPT !.after = Chosen, !.nav = res.nav]
    /\ tok' = "none"
    /\ UNCHANGED <<ctx, scr, db, failure, gvcVars>>

\* REPEAT not told apart from NEXT
RunMenuActions_AfterAction_NoRepeat ==
    /\ pc = "behaved"
    /\ IF res.err # "nil"
       THEN Return(Pop, [nav |-> NEXT, err |-> res.err])
       ELSE IF res.nav = BACK
       THEN Return(Pop, [nav |-> NEXT, err |-> "nil"])
       ELSE Descend(stack, Chosen, ctx)
    /\ res' = NoRes
    /\ ev' = [NoEv EXCEPT !.after = Chosen, !.nav = res.nav]
    /\ tok' = "none"
    /\ UNCHANGED <<ctx, scr, db, failure, gvcVars>>

\* BACK keeps the loop of this level running over its option list
RunMenuActions_AfterAction_BackContinues ==
    /\ pc = "behaved"
    /\ IF res.err # "nil"
       THEN Return(Pop, [nav |-> NEXT, err |-> res.err])
       ELSE IF res.nav = BACK \/ res.nav = REPEAT
       THEN Continue(stack)
       ELSE Descend(stack, Chosen, ctx)
    /\ res' = NoRes
    /\ ev' = [NoEv EXCEPT !.after = Chosen, !.nav = res.nav]
    /\ tok' = "none"
    /\ UNCHANGED <<ctx, scr, db, failure, gvcVars>>

\* after action.Action(env): the error, BACK, REPEAT, or on to the children
RunMenuActions_AfterAction ==
    /\ pc = "behaved"
    /\ IF res.err # "nil"
       THEN Return(Pop, [nav |-> NEXT, err |-> res.err])
       ELSE IF res.nav = BACK
       THEN Return(Pop, [nav |-> NEXT, err |-> "nil"])
       ELSE IF res.nav = REPEAT
       THEN Continue(stack)
       ELSE Descend(stack, Chosen, ctx)
    /\ res' = NoRes
    /\ ev' = [NoEv EXCEPT !.after = Chosen, !.nav = res.nav]
    /\ tok' = "none"
    /\ UNCHANGED <<ctx, scr, db, failure, gvcVars>>

\* the quit check after the recursive call left out
RunMenuActions_AfterRecursion_NoQuitCheck ==
    /\ pc = "ret"
    /\ IF ret.err # "nil"
       THEN Return(Pop, [nav |-> NEXT, err |-> ret.err])
       ELSE IF ret.nav = BACK
       THEN Return(Pop, [nav |-> NEXT, err |-> "nil"])
       ELSE Continue(stack)
    /\ ev' = NoEv
    /\ tok' = "none"
    /\ UNCHANGED <<ctx, res, scr, db, failure, gvcVars>>

\* the error of the recursive call dropped
RunMenuActions_AfterRecursion_NoErrCheck ==
    /\ pc = "ret"
    /\ IF QuitProgram(ctx)
       THEN Return(Pop, [nav |-> NEXT, err |-> "nil"])
       ELSE IF ret.nav = BACK
       THEN Return(Pop, [nav |-> NEXT, err |-> "nil"])
       ELSE Continue(stack)
    /\ ev' = NoEv
    /\ tok' = "none"
    /\ UNCHANGED <<ctx, res, scr, db, failure, gvcVars>>

\* after the recursive call: quit, the error, BACK, or the next prompt
RunMenuActions_AfterRecursion ==
    /\ pc = "ret"
    /\ IF QuitProgram(ctx)
       THEN Return(Pop, [nav |-> NEXT, err |-> "nil"])
       ELSE IF ret.err # "nil"
       THEN Return(Pop, [nav |-> NEXT, err |-> ret.err])
       ELSE IF ret.nav = BACK
       THEN Return(Pop, [nav |-> NEXT, err |-> "nil"])
       ELSE Continue(stack)
    /\ ev' = NoEv
    /\ tok' = "none"
    /\ UNCHANGED <<ctx, res, scr, db, failure, gvcVars>>

(***************************************************************************)
(* Behaviours.                                                             *)
(***************************************************************************)
\* the behaviour of the chosen node returns (nav, err)
Behaved(nav, err) ==
    /\ res' = [nav |-> nav, err |-> err]
    /\ pc' = "behaved"
    /\ scr' = NoScr
    /\ failure' = IF failure = "nil" THEN err ELSE failure

Invoking(name) == pc = "invoke" /\ Chosen = name

frameVars == <<stack, callArgs, ret>>

ActionRegisterUser ==
    /\ Invoking("ActionRegisterUser")
    /\ ev' = [NoEv EXCEPT !.read = TRUE, !.invoked = "ActionRegisterUser"]
    /\ \/ /\ tok' = "eof"
          /\ Behaved(NEXT, "ErrIO")
          /\ db' = db
       \/ /\ tok' = ""
          /\ Behaved(NEXT, ErrInvalidInput)
          /\ db' = db
       \/ /\ tok' = "name"
          /\ Behaved(NEXT, "ErrStore")
          /\ db' = db
       \/ /\ tok' = "name"
          /\ db.writes < MaxWrites
          /\ db' = [db EXCEPT !.users = @ \cup {NewId(db.users)},
                              !.writes = @ + 1]
          /\ Behaved(NEXT, "nil")
    /\ UNCHANGED <<ctx, frameVars, gvcVars>>

\* the behaviour goes on: its locals become s and its position p
Stay(s, p) ==
    /\ scr' = s
    /\ pc' = p
    /\ res' = res
    /\ failure' = failure

\* "n" on a full page skips a page
ScrollSkipsPage(s, t) ==
    IF t = "n"
    THEN IF Len(s.rows) = pageSize
         THEN [s EXCEPT !.pageNumber = @ + 2, !.showList = TRUE]
         ELSE [s EXCEPT !.showList = FALSE]
    ELSE IF s.pageNumber > 1
         THEN [s EXCEPT !.pageNumber = @ - 1, !.showList = TRUE]
         ELSE [s EXCEPT !.showList = FALSE]

\* "n" moves on whenever the page has rows
ScrollNextIfAny(s, t) ==
    IF t = "n"
    THEN IF Len(s.rows) > 0
         THEN [s EXCEPT !.pageNumber = @ + 1, !.showList = TRUE]
         ELSE [s EXCEPT !.showList = FALSE]
    ELSE IF s.pageNumber > 1
         THEN [s EXCEPT !.pageNumber = @ - 1, !.showList = TRUE]
         ELSE [s EXCEPT !.showList = FALSE]

\* "p" moves back without looking at the page number
ScrollPrevAlways(s, t) ==
    IF t = "n"
    THEN IF Len(s.rows) = pageSize
         THEN [s EXCEPT !.pageNumber = @ + 1, !.showList = TRUE]
         ELSE [s EXCEPT !.showList = FALSE]
    ELSE [s EXCEPT !.pageNumber = @ - 1, !.showList = TRUE]

\* the row after the chosen one (the last row for the last one)
SelectedIdOffByOne(rows, position) ==
    At(rows, IF position + 1 < Len(rows) THEN position + 1 ELSE Len(rows) - 1)

\* the id of the entity at the chosen position of the page
SelectedId(rows, position) == At(rows, position)

\* the "n" and "p" cases of a list screen's switch
Scroll(s, t) ==
    IF t = "n"
    THEN IF Len(s.rows) = pageSize
         THEN [s EXCEPT !.pageNumber = @ + 1, !.showList = TRUE]
         ELSE [s EXCEPT !.showList = FALSE]
    ELSE IF s.pageNumber > 1
         THEN [s EXCEPT !.pageNumber = @ - 1, !.showList = TRUE]
         ELSE [s EXCEPT !.showList = FALSE]

\* the local variables of a list screen at its first iteration
NewScreen(kind, userId) ==
    [kind |-> kind, pageNumber |-> 1, showList |-> TRUE, rows |-> <<>>,
     userId |-> userId, userIdProvided |-> FALSE, useDhcpBounds |-> FALSE]

ActionListUsers_Invoke ==
    /\ Invoking("ActionListUsers")
    /\ ev' = [NoEv EXCEPT !.invoked = "ActionListUsers"]
    /\ tok' = "none"
    /\ Stay(NewScreen("users", 0), "render")
    /\ UNCHANGED <<ctx, db, frameVars, gvcVars>>

\* top of the loop: fetch and print the page when showList
ActionListUsers_Render ==
    /\ pc = "render" /\ scr.kind = "users"
    /\ tok' = "none"
    /\ IF scr.showList
       THEN /\ ev' = [NoEv EXCEPT !.calls = {"UserStore.ReadMany"}]
            /\ \/ Behaved(NEXT, "ErrStore")
               \/ LET users == UserStoreReadMany(db, pageSize, scr.pageNumber)
                  IN  IF Len(users) = 0 /\ scr.pageNumber = 1
                      THEN Behaved(REPEAT, "nil")
                      ELSE \/ Stay([scr EXCEPT !.rows = users], "ask")
                           \/ Behaved(NEXT, "ErrIO")
       ELSE /\ ev' = NoEv
            /\ Stay(scr, "ask")
    /\ UNCHANGED <<ctx, db, frameVars, gvcVars>>

\* the prompt of the loop and the switch on the token
ActionListUsers_Ask ==
    /\ pc = "ask" /\ scr.kind = "users"
    /\ \E t \in ListTokens(Len(scr.rows)) :
         /\ tok' = t
         /\ IF t = "eof"
            THEN /\ Behaved(NEXT, "ErrIO")
                 /\ ev' = [NoEv EXCEPT !.read = TRUE]
                 /\ ctx' = ctx
            ELSE IF t = "n" \/ t = "p"
            THEN /\ Stay(Scroll(scr, t), "render")
                 /\ ev' = [NoEv EXCEPT !.read = TRUE]
                 /\ ctx' = ctx
            ELSE IF t = "q"
            THEN /\ Behaved(REPEAT, "nil")
                 /\ ev' = [NoEv EXCEPT !.read = TRUE]
                 /\ ctx' = ctx
            ELSE IF GetChoice(t, Len(scr.rows)).err = ErrInvalidChoice
            THEN /\ Stay([scr EXCEPT !.showList = FALSE], "render")
                 /\ ev' = [NoEv EXCEPT !.read = TRUE]
                 /\ ctx' = ctx
            ELSE LET userId == SelectedId(scr.rows,
                                           GetChoice(t, Len(scr.rows)).position)
                 IN  /\ ev' = [NoEv EXCEPT !.read = TRUE,
                                           !.calls = {"UserStore.Read"}]
                     /\ \/ Behaved(NEXT, "ErrStore") /\ ctx' = ctx
                        \/ /\ userId \notin db.users
                           /\ Behaved(NEXT, "ErrNotFound")
                           /\ ctx' = ctx
                        \/ /\ userId \in db.users
                           /\ ctx' = Set(ctx, "userId", userId)
                           /\ Behaved(NEXT, "nil")
    /\ UNCHANGED <<db, frameVars, gvcVars>>

ActionListUserBandwidthSlots_Invoke ==
    /\ Invoking("ActionListUserBandwidthSlots")
    /\ ev' = [NoEv EXCEPT !.invoked = "ActionListUserBandwidthSlots"]
    /\ tok' = "none"
    /\ IF "userId" \notin DOMAIN ctx
       THEN Behaved(NEXT, "user id not provided")
       ELSE Stay(NewScreen("slots", ctx["userId"]), "render")
    /\ UNCHANGED <<ctx, db, frameVars, gvcVars>>

ActionListUserBandwidthSlots_Render ==
    /\ pc = "render" /\ scr.kind = "slots"
    /\ tok' = "none"
    /\ IF scr.showList
       THEN LET slots == SlotStoreReadManyByUserId(db, scr.userId, pageSize,
                                                   scr.pageNumber)
            IN  \/ /\ ev' = [NoEv EXCEPT !.calls =
                                {"BandwidthSlotStore.ReadManyByUserId"}]
                   /\ Behaved(NEXT, "ErrStore")
                \/ /\ ev' = [NoEv EXCEPT !.calls =
                                {"BandwidthSlotStore.ReadManyByUserId",
                                 "router.GetBwControlEntriesByList"}]
                   /\ \/ Behaved(NEXT, "ErrRouter")
                      \/ IF Len(slots) = 0
                         THEN Behaved(NEXT, "nil")
                         ELSE \/ Stay([scr EXCEPT !.rows = slots], "ask")
                              \/ Behaved(NEXT, "ErrIO")
       ELSE /\ ev' = NoEv
            /\ Stay(scr, "ask")
    /\ UNCHANGED <<ctx, db, frameVars, gvcVars>>

ActionListUserBandwidthSlots_Ask ==
    /\ pc = "ask" /\ scr.kind = "slots"
    /\ \E t \in ListTokens(Len(scr.rows)) :
         /\ tok' = t
         /\ IF t = "eof"
            THEN /\ Behaved(NEXT, "ErrIO")
                 /\ ev' = [NoEv EXCEPT !.read = TRUE]
                 /\ ctx' = ctx
            ELSE IF t = "n" \/ t = "p"
            THEN /\ Stay(Scroll(scr, t), "render")
                 /\ ev' = [NoEv EXCEPT !.read = TRUE]
                 /\ ctx' = ctx
            ELSE IF t = "q"
            THEN /\ Behaved(REPEAT, "nil")
                 /\ ev' = [NoEv EXCEPT !.read = TRUE]
                 /\ ctx' = ctx
            ELSE IF GetChoice(t, Len(scr.rows)).err = ErrInvalidChoice
            THEN /\ Stay([scr EXCEPT !.showList = FALSE], "render")
                 /\ ev' = [NoEv EXCEPT !.read = TRUE]
                 /\ ctx' = ctx
            ELSE LET slotId == SelectedId(scr.rows,
                                           GetChoice(t, Len(scr.rows)).position)
                 IN  /\ ev' = [NoEv EXCEPT !.read = TRUE,
                                           !.calls = {"BandwidthSlotStore.Read"}]
                     /\ \/ Behaved(NEXT, "ErrStore") /\ ctx' = ctx
                        \/ /\ slotId \notin Ids(db.slots)
                           /\ Behaved(NEXT, "ErrNotFound")
                           /\ ctx' = ctx
                        \/ /\ slotId \in Ids(db.slots)
                           /\ ctx' = Set(ctx, "slotId", slotId)
                           /\ Behaved(NEXT, "nil")
    /\ UNCHANGED <<db, frameVars, gvcVars>>

ActionAssignSlot_Invoke ==
    /\ Invoking("ActionAssignSlot")
    /\ ev' = [NoEv EXCEPT !.invoked = "ActionAssignSlot"]
    /\ tok' = "none"
    /\ IF "userId" \notin DOMAIN ctx
       THEN Behaved(NEXT, "user id not provided")
       ELSE Stay(NewScreen("assign", ctx["userId"]), "bounds")
    /\ UNCHANGED <<ctx, db, frameVars, gvcVars>>

\* BOUNDS_LOOP: GetCharChoice(in, {"y", "n"})
ActionAssignSlot_Bounds ==
    /\ pc = "bounds" /\ scr.kind = "assign"
    /\ ev' = [NoEv EXCEPT !.read = TRUE]
    /\ \E t \in {"y", "n", "x", "eof"} :
         /\ tok' = t
         /\ IF t = "eof" THEN Behaved(NEXT, "ErrIO")
            ELSE IF t = "x" THEN Stay(scr, "bounds")
            ELSE Stay([scr EXCEPT !.useDhcpBounds = (t = "y")], "render")
    /\ UNCHANGED <<ctx, db, frameVars, gvcVars>>

ActionAssignSlot_Render ==
    /\ pc = "render" /\ scr.kind = "assign"
    /\ tok' = "none"
    /\ IF scr.showList
       THEN /\ ev' = [NoEv EXCEPT !.calls = {"router.GetAvailableBandwidthSlots"}]
            /\ \/ Behaved(NEXT, "ErrRouter")
               \/ \E k \in Counts(MaxAvail) :
                    LET slots == [i \in 1..k |-> i]
                    IN  IF Len(slots) = 0
                        THEN Behaved(IF scr.pageNumber = 1 THEN BACK ELSE NEXT,
                                     "nil")
                        ELSE \/ Stay([scr EXCEPT !.rows = slots], "ask")
                             \/ Behaved(NEXT, "ErrRouter")
       ELSE /\ ev' = NoEv
            /\ Stay(scr, "ask")
    /\ UNCHANGED <<ctx, db, frameVars, gvcVars>>

\* the prompt and the switch; a chosen slot starts the dialogue
ActionAssignSlot_Ask ==
    /\ pc = "ask" /\ scr.kind = "assign"
    /\ \E t \in ListTokens(Len(scr.rows)) :
         /\ tok' = t
         /\ (t = "n" /\ Len(scr.rows) = pageSize) => scr.pageNumber < MaxPage
         /\ IF t = "eof"
            THEN /\ Behaved(NEXT, "ErrIO")
                 /\ ev' = [NoEv EXCEPT !.read = TRUE]
                 /\ db' = db
            ELSE IF t = "n" \/ t = "p"
            THEN /\ Stay(Scroll(scr, t), "render")
                 /\ ev' = [NoEv EXCEPT !.read = TRUE]
                 /\ db' = db
            ELSE IF t = "q"
            THEN /\ Behaved(NEXT, "nil")
                 /\ ev' = [NoEv EXCEPT !.read = TRUE]
                 /\ db' = db
            ELSE IF GetChoice(t, Len(scr.rows)).err = ErrInvalidChoice
            THEN /\ Behaved(NEXT, "assign: invalid choice")
                 /\ ev' = [NoEv EXCEPT !.read = TRUE]
                 /\ db' = db
            ELSE /\ Stay(NewScreen("assigning", scr.userId), "ip")
                 /\ ev' = [NoEv EXCEPT !.read = TRUE]
                 /\ db' = db
    /\ UNCHANGED <<ctx, frameVars, gvcVars>>

\* "Enter start IP": the empty line takes the slot's first address
ActionAssignSlot_StartIP ==
    /\ pc = "ip" /\ scr.kind = "assigning"
    /\ ev' = [NoEv EXCEPT !.read = TRUE]
    /\ \E t \in IpTokens :
         /\ tok' = t
         /\ IF t = "eof" THEN Behaved(NEXT, "ErrIO")
            ELSE IF t = "" THEN Stay(scr, "num")
            ELSE IF ~IsValidIPv4Address(t)
            THEN Behaved(REPEAT, "invalid IPv4 address")
            ELSE IF Ip2Int(t) < Ip2Int(MinAddress) THEN Behaved(REPEAT, "nil")
            ELSE IF Ip2Int(t) > Ip2Int(MaxAddress) THEN Behaved(REPEAT, "nil")
            ELSE Stay(scr, "num")
    /\ UNCHANGED <<ctx, db, frameVars, gvcVars>>

\* "Enter number of devices", the two speeds, the router entry and the record
ActionAssignSlot_Devices ==
    /\ pc = "num" /\ scr.kind = "assigning"
    /\ \E t \in CountTokens :
         LET num == GetIntInput(t, Capacity)
         IN  /\ tok' = t
             /\ IF num.err # "nil"
                THEN /\ Behaved(NEXT, num.err)
                     /\ ev' = [NoEv EXCEPT !.read = TRUE]
                     /\ db' = db
                ELSE IF num.n > Capacity \/ num.n < 1
                THEN /\ Behaved(NEXT, "invalid number")
                     /\ ev' = [NoEv EXCEPT !.read = TRUE]
                     /\ db' = db
                ELSE \/ /\ ev' = [NoEv EXCEPT !.read = TRUE]
                        /\ db' = db
                        /\ \/ Behaved(NEXT, "ErrIp")
                           \/ Behaved(NEXT, "ErrIO")
                     \/ /\ ev' = [NoEv EXCEPT !.read = TRUE,
                                     !.calls = {"router.AddBwControlEntry"}]
                        /\ db' = db
                        /\ Behaved(NEXT, "ErrRouter")
                     \/ /\ ev' = [NoEv EXCEPT !.read = TRUE,
                                     !.calls = {"router.AddBwControlEntry",
                                                "BandwidthSlotStore.Create"}]
                        /\ \/ Behaved(NEXT, "ErrStore") /\ db' = db
                           \/ /\ db.writes < MaxWrites
                              /\ db' = [db EXCEPT
                                    !.slots = @ \cup {[id |-> NewId(Ids(db.slots)),
                                                       userId |-> scr.userId]},
                                    !.writes = @ + 1]
                              /\ Behaved(NEXT, "nil")
    /\ UNCHANGED <<ctx, frameVars, gvcVars>>

\* the key is removed before the user record is known to be deleted
ActionDeregisterUser_UnbindsEarly ==
    /\ Invoking("ActionDeregisterUser")
    /\ tok' = "none"
    /\ IF "userId" \notin DOMAIN ctx
       THEN /\ Behaved(NEXT, "user id not provided")
            /\ ev' = [NoEv EXCEPT !.invoked = "ActionDeregisterUser"]
            /\ UNCHANGED <<ctx, db>>
       ELSE LET userId == ctx["userId"]
                noSlots == [db EXCEPT !.slots = @ \ ByUserId(@, userId)]
                noDevices == [noSlots EXCEPT !.devices = @ \ ByUserId(@, userId)]
                noUser == [noDevices EXCEPT !.users = @ \ {userId},
                                            !.writes = @ + 1]
            IN  \/ /\ ev' = [NoEv EXCEPT !.invoked = "ActionDeregisterUser",
                                !.calls = {"BandwidthSlotStore.DeleteByUserId"}]
                   /\ Behaved(NEXT, "ErrStore")
                   /\ UNCHANGED <<ctx, db>>
                \/ /\ ev' = [NoEv EXCEPT !.invoked = "ActionDeregisterUser",
                                !.calls = {"BandwidthSlotStore.DeleteByUserId",
                                           "DeviceStore.DeleteByUserId"}]
                   /\ db.writes < MaxWrites
                   /\ Behaved(NEXT, "ErrStore")
                   /\ db' = [noSlots EXCEPT !.writes = @ + 1]
                   /\ ctx' = ctx
                \/ /\ ev' = [NoEv EXCEPT !.invoked = "ActionDeregisterUser",
                                !.calls = {"BandwidthSlotStore.DeleteByUserId",
                                           "DeviceStore.DeleteByUserId",
                                           "UserStore.Delete"}]
                   /\ db.writes < MaxWrites
                   /\ \/ /\ Behaved(NEXT, "ErrStore")
                         /\ db' = [noDevices EXCEPT !.writes = @ + 1]
                         /\ ctx' = Delete(ctx, "userId")
                      \/ /\ Behaved(BACK, "nil")
                         /\ db' = noUser
                         /\ ctx' = Delete(ctx, "userId")
    /\ UNCHANGED <<frameVars, gvcVars>>

\* the three deletes in order, stopping at the first that fails
ActionDeregisterUser ==
    /\ Invoking("ActionDeregisterUser")
    /\ tok' = "none"
    /\ IF "userId" \notin DOMAIN ctx
       THEN /\ Behaved(NEXT, "user id not provided")
            /\ ev' = [NoEv EXCEPT !.invoked = "ActionDeregisterUser"]
            /\ UNCHANGED <<ctx, db>>
       ELSE LET userId == ctx["userId"]
                noSlots == [db EXCEPT !.slots = @ \ ByUserId(@, userId)]
                noDevices == [noSlots EXCEPT !.devices = @ \ ByUserId(@, userId)]
                noUser == [noDevices EXCEPT !.users = @ \ {userId},
                                            !.writes = @ + 1]
            IN  \/ /\ ev' = [NoEv EXCEPT !.invoked = "ActionDeregisterUser",
                                !.calls = {"BandwidthSlotStore.DeleteByUserId"}]
                   /\ Behaved(NEXT, "ErrStore")
                   /\ UNCHANGED <<ctx, db>>
                \/ /\ ev' = [NoEv EXCEPT !.invoked = "ActionDeregisterUser",
                                !.calls = {"BandwidthSlotStore.DeleteByUserId",
                                           "DeviceStore.DeleteByUserId"}]
                   /\ db.writes < MaxWrites
                   /\ Behaved(NEXT, "ErrStore")
                   /\ db' = [noSlots EXCEPT !.writes = @ + 1]
                   /\ ctx' = ctx
                \/ /\ ev' = [NoEv EXCEPT !.invoked = "ActionDeregisterUser",
                                !.calls = {"BandwidthSlotStore.DeleteByUserId",
                                           "DeviceStore.DeleteByUserId",
                                           "UserStore.Delete"}]
                   /\ db.writes < MaxWrites
                   /\ \/ /\ Behaved(NEXT, "ErrStore")
                         /\ db' = [noDevices EXCEPT !.writes = @ + 1]
                         /\ ctx' = ctx
                      \/ /\ Behaved(BACK, "nil")
                         /\ db' = noUser
                         /\ ctx' = Delete(ctx, "userId")
    /\ UNCHANGED <<frameVars, gvcVars>>

ActionDeleteSlot ==
    /\ Invoking("ActionDeleteSlot")
    /\ tok' = "none"
    /\ IF "slotId" \notin DOMAIN ctx
       THEN /\ Behaved(NEXT, "slot id not provided")
            /\ ev' = [NoEv EXCEPT !.invoked = "ActionDeleteSlot"]
            /\ db' = db
       ELSE LET slotId == ctx["slotId"]
            IN  \/ /\ ev' = [NoEv EXCEPT !.invoked = "ActionDeleteSlot",
                                !.calls = {"BandwidthSlotStore.Read"}]
                   /\ \/ Behaved(NEXT, "ErrStore")
                      \/ slotId \notin Ids(db.slots) /\ Behaved(NEXT, "ErrNotFound")
                   /\ db' = db
                \/ /\ slotId \in Ids(db.slots)
                   /\ ev' = [NoEv EXCEPT !.invoked = "ActionDeleteSlot",
                                !.calls = {"BandwidthSlotStore.Read",
                                           "router.DeleteBwControlEntry"}]
                   /\ Behaved(NEXT, "ErrRouter")
                   /\ db' = db
                \/ /\ slotId \in Ids(db.slots)
                   /\ ev' = [NoEv EXCEPT !.invoked = "ActionDeleteSlot",
                                !.calls = {"BandwidthSlotStore.Read",
                                           "router.DeleteBwControlEntry",
                                           "BandwidthSlotStore.Delete"}]
                   /\ \/ Behaved(NEXT, "ErrStore") /\ db' = db
                      \/ /\ db.writes < MaxWrites
                         /\ Behaved(BACK, "nil")
                         /\ db' = [db EXCEPT !.slots =
                                      {r \in @ : r.id # slotId},
                                      !.writes = @ + 1]
    /\ UNCHANGED <<ctx, frameVars, gvcVars>>

ActionListDevices_Invoke ==
    /\ Invoking("ActionListDevices")
    /\ ev' = [NoEv EXCEPT !.invoked = "ActionListDevices"]
    /\ tok' = "none"
    /\ Stay([NewScreen("devices", Lookup(ctx, "userId"))
                EXCEPT !.userIdProvided = ("userId" \in DOMAIN ctx)], "render")
    /\ UNCHANGED <<ctx, db, frameVars, gvcVars>>

ActionListDevices_Render ==
    /\ pc = "render" /\ scr.kind = "devices"
    /\ tok' = "none"
    /\ IF scr.showList
       THEN LET byUser == scr.userIdProvided /\ scr.userId # 0
                devices ==
                    IF byUser
                    THEN DeviceStoreReadManyByUserId(db, scr.userId, pageSize,
                                                     scr.pageNumber)
                    ELSE DeviceStoreReadMany(db, pageSize, scr.pageNumber)
                fetch == IF byUser THEN "DeviceStore.ReadManyByUserId"
                         ELSE "DeviceStore.ReadMany"
            IN  \/ /\ ev' = [NoEv EXCEPT !.calls = {fetch}]
                   /\ \/ Behaved(NEXT, "ErrStore")
                      \/ Len(devices) = 0 /\ Behaved(NEXT, "nil")
                \* device.GetUser for every row: a failure only shortens
                \* the printed row
                \/ /\ Len(devices) > 0
                   /\ \E failed \in {{}, {"UserStore.Read"}} :
                        ev' = [NoEv EXCEPT !.calls = {fetch, "UserStore.Read"},
                                           !.failed = failed]
                   /\ \/ Stay([scr EXCEPT !.rows = devices], "ask")
                      \/ Behaved(NEXT, "ErrIO")
       ELSE /\ ev' = NoEv
            /\ Stay(scr, "ask")
    /\ UNCHANGED <<ctx, db, frameVars, gvcVars>>

ActionListDevices_Ask ==
    /\ pc = "ask" /\ scr.kind = "devices"
    /\ ev' = [NoEv EXCEPT !.read = TRUE]
    /\ \E t \in ListTokens(Len(scr.rows)) :
         /\ tok' = t
         /\ IF t = "eof"
            THEN Behaved(NEXT, "ErrIO") /\ ctx' = ctx
            ELSE IF t = "n" \/ t = "p"
            THEN Stay(Scroll(scr, t), "render") /\ ctx' = ctx
            ELSE IF t = "q"
            THEN Behaved(NEXT, "nil") /\ ctx' = ctx
            ELSE IF GetChoice(t, Len(scr.rows)).err = ErrInvalidChoice
            THEN Stay([scr EXCEPT !.showList = FALSE], "render") /\ ctx' = ctx
            ELSE LET deviceId == SelectedId(scr.rows,
                                           GetChoice(t, Len(scr.rows)).position)
                 IN  /\ ctx' = Set(ctx, "deviceId", deviceId)
                     /\ Behaved(NEXT, "nil")
    /\ UNCHANGED <<db, frameVars, gvcVars>>

\* the statistics are fetched once, before the loop
ActionShowConnectedDevices_Invoke ==
    /\ Invoking("ActionShowConnectedDevices")
    /\ tok' = "none"
    /\ \/ /\ ev' = [NoEv EXCEPT !.invoked = "ActionShowConnectedDevices",
                       !.calls = {"router.GetStatistics"}]
          /\ Behaved(NEXT, "ErrRouter")
       \/ /\ ev' = [NoEv EXCEPT !.invoked = "ActionShowConnectedDevices",
                       !.calls = {"router.GetStatistics",
                                  "DeviceStore.ReadManyByMac"}]
          /\ \/ Behaved(NEXT, "ErrStore")
             \/ \E k \in Counts(MaxStats) :
                  Stay([NewScreen("connected", 0) EXCEPT !.rows = [i \in 1..k |-> i]],
                       "render")
    /\ UNCHANGED <<ctx, db, frameVars, gvcVars>>

ActionShowConnectedDevices_Render ==
    /\ pc = "render" /\ scr.kind = "connected"
    /\ tok' = "none"
    /\ ev' = NoEv
    /\ IF scr.showList
       THEN IF Len(scr.rows) = 0 /\ scr.pageNumber = 1
            THEN Behaved(NEXT, "nil")
            ELSE \/ Stay(scr, "ask")
                 \/ Behaved(NEXT, "ErrIO")
       ELSE Stay(scr, "ask")
    /\ UNCHANGED <<ctx, db, frameVars, gvcVars>>

ActionShowConnectedDevices_Ask ==
    /\ pc = "ask" /\ scr.kind = "connected"
    /\ ev' = [NoEv EXCEPT !.read = TRUE]
    /\ \E t \in ScrollTokens :
         /\ tok' = t
         /\ (t = "n" /\ Len(scr.rows) = pageSize) => scr.pageNumber < MaxPage
         /\ IF t = "eof" THEN Behaved(NEXT, "ErrIO")
            ELSE IF t = "n" \/ t = "p" THEN Stay(Scroll(scr, t), "render")
            ELSE IF t = "q" THEN Behaved(NEXT, "nil")
            ELSE Stay(scr, "render")
    /\ UNCHANGED <<ctx, db, frameVars, gvcVars>>

\* ActionExportARPBindings and ActionExportDhcpAddressReservations
ActionExport(name, call) ==
    /\ Invoking(name)
    /\ tok' = "none"
    /\ ev' = [NoEv EXCEPT !.invoked = name, !.calls = {call}]
    /\ \/ Behaved(NEXT, "ErrRouter")
       \/ Behaved(NEXT, "nil")
       \/ Behaved(NEXT, "ErrIO")
    /\ UNCHANGED <<ctx, db, frameVars, gvcVars>>

ActionExportARPBindings ==
    ActionExport("ActionExportARPBindings", "router.GetIpMacBindings")

ActionExportDhcpAddressReservations ==
    ActionExport("ActionExportDhcpAddressReservations",
                 "router.GetAddressReservations")

\* the context checks and the two point lookups before the loop
ActionRegisterDevice_Invoke ==
    /\ Invoking("ActionRegisterDevice")
    /\ tok' = "none"
    /\ IF "userId" \notin DOMAIN ctx
       THEN /\ Behaved(NEXT, "user id not provided")
            /\ ev' = [NoEv EXCEPT !.invoked = "ActionRegisterDevice"]
       ELSE IF "slotId" \notin DOMAIN ctx
       THEN /\ Behaved(NEXT, "slot id not provided")
            /\ ev' = [NoEv EXCEPT !.invoked = "ActionRegisterDevice"]
       ELSE \/ /\ ev' = [NoEv EXCEPT !.invoked = "ActionRegisterDevice",
                            !.calls = {"BandwidthSlotStore.Read"}]
               /\ \/ Behaved(NEXT, "ErrStore")
                  \/ /\ ctx["slotId"] \notin Ids(db.slots)
                     /\ Behaved(NEXT, "ErrNotFound")
            \/ /\ ctx["slotId"] \in Ids(db.slots)
               /\ ev' = [NoEv EXCEPT !.invoked = "ActionRegisterDevice",
                            !.calls = {"BandwidthSlotStore.Read", "UserStore.Read"}]
               /\ \/ Behaved(NEXT, "ErrStore")
                  \/ /\ ctx["userId"] \notin db.users
                     /\ Behaved(NEXT, "ErrNotFound")
                  \/ /\ ctx["userId"] \in db.users
                     /\ Stay([NewScreen("register", ctx["userId"])
                                EXCEPT !.showList = FALSE], "mac")
    /\ UNCHANGED <<ctx, db, frameVars, gvcVars>>

\* one iteration of the loop that reads the mac address
ActionRegisterDevice_Mac ==
    /\ pc = "mac" /\ scr.kind = "register"
    /\ \/ /\ tok' = "eof"
          /\ ev' = [NoEv EXCEPT !.read = TRUE]
          /\ Behaved(NEXT, "ErrIO")
          /\ db' = db
       \/ /\ tok' = "x"
          /\ ev' = [NoEv EXCEPT !.read = TRUE]
          /\ Stay(scr, "mac")
          /\ db' = db
       \/ /\ tok' = "mac"
          /\ ev' = [NoEv EXCEPT !.read = TRUE,
                       !.calls = {"router.GetUnusedIPAddress"}]
          /\ Behaved(NEXT, "ErrRouter")
          /\ db' = db
       \/ /\ tok' = "mac"
          /\ ev' = [NoEv EXCEPT !.read = TRUE,
                       !.calls = {"router.GetUnusedIPAddress",
                                  "router.MakeIpAddressReservation"}]
          /\ Behaved(NEXT, "ErrRouter")
          /\ db' = db
       \/ /\ tok' = "mac"
          /\ ev' = [NoEv EXCEPT !.read = TRUE,
                       !.calls = {"router.GetUnusedIPAddress",
                                  "router.MakeIpAddressReservation",
                                  "DeviceStore.ReadManyByMac"}]
          /\ \/ Behaved(NEXT, "ErrStore") /\ db' = db
             \/ db.devices # {} /\ Behaved(NEXT, "nil") /\ db' = db
       \/ /\ tok' = "mac"
          /\ ev' = [NoEv EXCEPT !.read = TRUE,
                       !.calls = {"router.GetUnusedIPAddress",
                                  "router.MakeIpAddressReservation",
                                  "DeviceStore.ReadManyByMac",
                                  "DeviceStore.Create"}]
          /\ \/ Behaved(NEXT, "ErrStore") /\ db' = db
             \/ /\ db.writes < MaxWrites
                /\ db' = [db EXCEPT
                      !.devices = @ \cup {[id |-> NewId(Ids(db.devices)),
                                           userId |-> scr.userId]},
                      !.writes = @ + 1]
                /\ Behaved(NEXT, "nil")
    /\ UNCHANGED <<ctx, frameVars, gvcVars>>

ActionDeregisterDevice ==
    /\ Invoking("ActionDeregisterDevice")
    /\ tok' = "none"
    /\ IF "deviceId" \notin DOMAIN ctx
       THEN /\ Behaved(NEXT, "device id not provided")
            /\ ev' = [NoEv EXCEPT !.invoked = "ActionDeregisterDevice"]
            /\ UNCHANGED <<ctx, db>>
       ELSE LET deviceId == ctx["deviceId"]
            IN  \/ /\ ev' = [NoEv EXCEPT !.invoked = "ActionDeregisterDevice",
                                !.calls = {"DeviceStore.Read"}]
                   /\ \/ Behaved(NEXT, "ErrStore")
                      \/ /\ deviceId \notin Ids(db.devices)
                         /\ Behaved(NEXT, "ErrNotFound")
                   /\ UNCHANGED <<ctx, db>>
                \/ /\ deviceId \in Ids(db.devices)
                   /\ ev' = [NoEv EXCEPT !.invoked = "ActionDeregisterDevice",
                                !.calls = {"DeviceStore.Read",
                                           "router.DeleteIpAddressReservation"}]
                   /\ Behaved(NEXT, "ErrRouter")
                   /\ UNCHANGED <<ctx, db>>
                \/ /\ deviceId \in Ids(db.devices)
                   /\ ev' = [NoEv EXCEPT !.invoked = "ActionDeregisterDevice",
                                !.calls = {"DeviceStore.Read",
                                           "router.DeleteIpAddressReservation",
                                           "DeviceStore.Delete"}]
                   /\ \/ Behaved(NEXT, "ErrStore") /\ UNCHANGED <<ctx, db>>
                      \/ /\ db.writes < MaxWrites
                         /\ Behaved(BACK, "nil")
                         /\ db' = [db EXCEPT !.devices =
                                      {r \in @ : r.id # deviceId},
                                      !.writes = @ + 1]
                         /\ ctx' = Delete(ctx, "deviceId")
    /\ UNCHANGED <<frameVars, gvcVars>>

ActionListBlockedDevices ==
    /\ Invoking("ActionListBlockedDevices")
    /\ tok' = "none"
    /\ \/ /\ ev' = [NoEv EXCEPT !.invoked = "ActionListBlockedDevices",
                       !.calls = {"router.GetBlockedDevices"}]
          /\ \/ Behaved(NEXT, "ErrRouter")
             \/ Behaved(NEXT, "nil")
       \/ /\ ev' = [NoEv EXCEPT !.invoked = "ActionListBlockedDevices",
                       !.calls = {"router.GetBlockedDevices",
                                  "DeviceStore.ReadManyByMac"}]
          /\ \/ Behaved(NEXT, "ErrStore")
             \/ Behaved(NEXT, "nil")
             \/ Behaved(NEXT, "ErrIO")
    /\ UNCHANGED <<ctx, db, frameVars, gvcVars>>

\* ActionBlockDevice and ActionUnblockDevice
ActionBlockUnblock(name, call) ==
    /\ Invoking(name)
    /\ \/ /\ tok' = "eof"
          /\ ev' = [NoEv EXCEPT !.invoked = name, !.read = TRUE]
          /\ Behaved(NEXT, "nil")
       \/ /\ tok' = "x"
          /\ ev' = [NoEv EXCEPT !.invoked = name, !.read = TRUE]
          /\ Behaved(NEXT, "nil")
       \/ /\ tok' = "mac"
          /\ ev' = [NoEv EXCEPT !.invoked = name, !.read = TRUE,
                       !.calls = {call}]
          /\ \/ Behaved(NEXT, "ErrRouter")
             \/ Behaved(NEXT, "nil")
    /\ UNCHANGED <<ctx, db, frameVars, gvcVars>>

ActionBlockDevice == ActionBlockUnblock("ActionBlockDevice", "router.BlockDevice")

ActionUnblockDevice ==
    ActionBlockUnblock("ActionUnblockDevice", "router.UnblockDevice")

Behaviours ==
    \/ ActionRegisterUser
    \/ ActionListUsers_Invoke
    \/ ActionListUsers_Render
    \/ ActionListUsers_Ask
    \/ ActionListUserBandwidthSlots_Invoke
    \/ ActionListUserBandwidthSlots_Render
    \/ ActionListUserBandwidthSlots_Ask
    \/ ActionAssignSlot_Invoke
    \/ ActionAssignSlot_Bounds
    \/ ActionAssignSlot_Render
    \/ ActionAssignSlot_Ask
    \/ ActionAssignSlot_StartIP
    \/ ActionAssignSlot_Devices
    \/ ActionDeregisterUser
    \/ ActionDeleteSlot
    \/ ActionListDevices_Invoke
    \/ ActionListDevices_Render
    \/ ActionListDevices_Ask
    \/ ActionShowConnectedDevices_Invoke
    \/ ActionShowConnectedDevices_Render
    \/ ActionShowConnectedDevices_Ask
    \/ ActionExportARPBindings
    \/ ActionExportDhcpAddressReservations
    \/ ActionRegisterDevice_Invoke
    \/ ActionRegisterDevice_Mac
    \/ ActionDeregisterDevice
    \/ ActionListBlockedDevices
    \/ ActionBlockDevice
    \/ ActionUnblockDevice

(***************************************************************************)
(* Direct calls of GetValidChildren on any node with any Context.          *)
(***************************************************************************)
CtxSpace == UNION {[S -> 0..MaxCtxVal] : S \in SUBSET Keys}

InitGVC ==
    /\ ctx \in CtxSpace
    /\ stack = <<>>
    /\ pc = "gvc"
    /\ callArgs = <<>>
    /\ res = NoRes
    /\ ret = NoRes
    /\ scr = NoScr
    /\ db = Db(0, 0, 0)
    /\ ev = NoEv
    /\ tok = "none"
    /\ failure = "nil"
    /\ gvcNode \in Nodes
    /\ gvcCtx = ctx
    /\ gvcOut = NoGvc

\* gvcNode.GetValidChildren(ctx)
GVC_Call ==
    /\ pc \in {"gvc", "gvc_ret"}
    /\ gvcOut' = GetValidChildren(gvcNode, ctx)
    /\ gvcCtx' = ctx
    /\ pc' = "gvc_ret"
    /\ UNCHANGED <<ctx, stack, callArgs, res, ret, scr, db, ev, tok, failure,
                   gvcNode>>

\* ctx.Set(k, v) between two calls
GVC_Bind ==
    /\ pc \in {"gvc", "gvc_ret"}
    /\ \E k \in Keys, v \in 0..MaxCtxVal : ctx' = Set(ctx, k, v)
    /\ pc' = "gvc"
    /\ UNCHANGED <<stack, callArgs, res, ret, scr, db, ev, tok, failure,
                   gvcNode, gvcCtx, gvcOut>>

NextGVC == GVC_Call \/ GVC_Bind

SpecGVC == InitGVC /\ [][NextGVC]_vars

Next ==
    \/ RunMenuActions_Entry
    \/ RunMenuActions_Choice
    \/ RunMenuActions_AfterAction
    \/ RunMenuActions_AfterRecursion
    \/ Behaviours

Spec == Init /\ [][Next]_vars

\* the control thread is never suspended between two reads: the steps of the
\* interpreter that read nothing are taken when they are enabled
FairSpec ==
    /\ Spec
    /\ WF_vars(RunMenuActions_Entry)
    /\ WF_vars(RunMenuActions_AfterAction)
    /\ WF_vars(RunMenuActions_AfterRecursion)

(***************************************************************************)
(* Properties.                                                             *)
(***************************************************************************)
Range(f) == {f[i] : i \in DOMAIN f}

\* every key of req is bound in c
AllBound(req, c) == \A i \in 1..Len(req) : req[i] \in DOMAIN c

C1_Visible(child) == AllBound(RequiresContext(child), gvcCtx)

\* the result of the last call is the children all of whose keys were bound,
\* in the order of Children, and the call left the Context as it was
C1_Exact ==
    pc = "gvc_ret" =>
        /\ gvcOut = SelectSeq(Children(gvcNode), C1_Visible)
        /\ ctx = gvcCtx

\* a call after keys were bound returns every child the call before returned,
\* and every child that was only missing keys that are bound now
C1_Monotone ==
    (pc' = "gvc_ret" /\ gvcOut # NoGvc) =>
        \A child \in Range(Children(gvcNode)) :
            /\ child \in Range(gvcOut) => child \in Range(gvcOut')
            /\ (/\ child \notin Range(gvcOut)
                /\ Range(RequiresContext(child)) \ DOMAIN gvcCtx \subseteq DOMAIN ctx)
               => child \in Range(gvcOut')

\* C1: GetValidChildren returns exactly the children whose every
\* RequiresContext key is present in the Context, in the order of Children,
\* and leaves the Context unchanged; binding a missing key makes the child
\* it hid appear in a later call and removes no child already returned.
C1_GetValidChildren == []C1_Exact /\ [][C1_Monotone]_vars

\* a call that returned some children of the node and filtered out others
C1_Witness ==
    /\ pc = "gvc_ret"
    /\ Len(gvcOut) > 0
    /\ Len(gvcOut) < Len(Children(gvcNode))

NoIO(e) == ~e.prompt /\ ~e.read /\ e.invoked = "none"

NextNil == [nav |-> NEXT, err |-> "nil"]

BackNil == [nav |-> BACK, err |-> "nil"]

\* with the quit flag set, a step prompts nothing, reads nothing, invokes
\* nothing, keeps the flag and leaves a frame
C2_Step ==
    QuitProgram(ctx) =>
        /\ QuitProgram(ctx')
        /\ NoIO(ev')
        /\ pc' \in {"ret", "done"}
        /\ Len(stack') <= Len(stack)

\* C2: once the quit flag is set, no frame issues another prompt or invokes
\* another behaviour, the flag stays set, and every enclosing RunMenuActions
\* call up to the root call eventually returns.
C2_QuitUnwinds == [][C2_Step]_vars /\ (QuitProgram(ctx) ~> pc = "done")

\* the flag was set at depth three or more and two frames are still active
C2_Witness == QuitProgram(ctx) /\ pc = "ret" /\ Len(stack) >= 2

C3_Step ==
    /\ (pc = "call" /\ QuitProgram(ctx)) =>
            /\ ret' = BackNil
            /\ pc' \in {"ret", "done"}
            /\ stack' = stack
            /\ ctx' = ctx
            /\ NoIO(ev')
    /\ (/\ pc' \in {"ret", "done"}
        /\ ~(pc = "call" /\ QuitProgram(ctx))
        /\ ret'.err = "nil") => ret'.nav = NEXT

\* C3: RunMenuActions entered with the quit flag set returns BACK with no
\* error, without a prompt, without a behaviour and without a change of the
\* Context; every other return without error returns NEXT.
C3_EntryWithQuit == [][C3_Step]_vars

\* the root call was entered with the flag set and has returned BACK
C3_Witness == pc = "done" /\ ret = BackNil /\ QuitProgram(ctx)

C4_Step ==
    failure # "nil" =>
        /\ ctx' = ctx
        /\ NoIO(ev')
        /\ pc' \in {"ret", "done"}
        /\ ret'.err = failure
        /\ Len(stack') = Len(stack) - 1

\* C4: when a behaviour returns a non-nil error, that frame and every
\* enclosing frame return the same error, and until the root call has
\* returned there is no prompt, no behaviour and no change of the Context.
C4_ErrorPropagates == [][C4_Step]_vars

\* a behaviour failed at depth three or more: its error is on the way up
C4_Witness ==
    failure # "nil" /\ pc = "ret" /\ ret.err = failure /\ Len(stack) >= 2

\* the token is no sentinel and no numeral, or a numeral outside 1..max
InvalidMenuToken(t, max) ==
    /\ t \notin {"eof", "b", "q"}
    /\ \/ ~Atoi(t).ok
       \/ Atoi(t).n < 1
       \/ Atoi(t).n > max

C5_Step ==
    (pc = "prompt" /\ ev'.prompt /\ InvalidMenuToken(tok', Len(Top.actions))) =>
        /\ pc' = "prompt"
        /\ stack' = stack
        /\ ctx' = ctx
        /\ ev'.invoked = "none"
        /\ ret' = NoRes
        /\ failure' = failure
        /\ db' = db

\* C5: a menu choice that does not parse or is a number outside the options
\* makes the same frame prompt again with the same options: no behaviour, no
\* change of the Context or of the depth, no error returned.
C5_InvalidChoiceReprompts == [][C5_Step]_vars

\* a nested frame prompts again after a token that did not parse
C5_Witness ==
    pc = "prompt" /\ ev.prompt /\ ~Atoi(tok).ok /\ Len(stack) >= 2

C6_Step ==
    /\ (pc = "behaved" /\ res = BackNil) =>
            /\ stack' = Pop
            /\ callArgs' = <<>>
            /\ ret' = NextNil
            /\ pc' = (IF Len(stack) = 1 THEN "done" ELSE "ret")
            /\ ctx' = ctx
            /\ NoIO(ev')
    /\ (pc = "ret" /\ ev.nav = BACK /\ ret.err = "nil") =>
            /\ pc' = "prompt"
            /\ stack' = [stack EXCEPT ![Len(stack)].choice = -1]

\* C6: when a behaviour returns BACK without error, its frame returns to its
\* caller without looking at the node's children, and only that level is
\* left: the caller's frame prompts again with its own options.
C6_BackUnwindsOneLevel == [][C6_Step]_vars

\* the frame in which Deregister user was chosen has returned to its caller
C6_Witness ==
    /\ pc = "ret"
    /\ ev.nav = BACK
    /\ ev.after = "ActionDeregisterUser"
    /\ ret = NextNil

C7_Step ==
    (pc = "behaved" /\ res = [nav |-> REPEAT, err |-> "nil"]) =>
        /\ pc' = "prompt"
        /\ stack' = [stack EXCEPT ![Len(stack)].choice = -1]
        /\ callArgs' = <<>>
        /\ ctx' = ctx

\* C7: when a behaviour returns REPEAT without error, the same level prompts
\* again with the same options and the node's children are not entered, even
\* when the Context would make some of them valid.
C7_RepeatStays == [][C7_Step]_vars

\* the level prompts again although the node has valid children
C7_Witness ==
    /\ pc = "prompt"
    /\ ev.nav = REPEAT
    /\ Len(GetValidChildren(ev.after, ctx)) > 0

\* the token is the number of a row of the page
ValidRow(t, rows) == Atoi(t).ok /\ Atoi(t).n \in 1..Len(rows)

C8_Visible(child) == AllBound(RequiresContext(child), ctx)

\* a valid row of the users list binds the id of that row and returns NEXT
C8_Select ==
    (pc = "ask" /\ scr.kind = "users" /\ ValidRow(tok', scr.rows)) =>
        /\ ctx' = Set(ctx, "userId", scr.rows[Atoi(tok').n])
        /\ res' = NextNil

\* the same when the point lookup of the user has succeeded
C8_SelectLookedUp ==
    (/\ pc = "ask" /\ scr.kind = "users" /\ ValidRow(tok', scr.rows)
     /\ res'.err = "nil") =>
        /\ ctx' = Set(ctx, "userId", scr.rows[Atoi(tok').n])
        /\ res' = NextNil

\* after the selection the children of List users whose keys are bound are
\* the options of the next frame
C8_Offer ==
    /\ (pc = "behaved" /\ Chosen = "ActionListUsers" /\ res = NextNil) =>
            /\ pc' = "call"
            /\ callArgs' = SelectSeq(Children("ActionListUsers"), C8_Visible)
            /\ ctx' = ctx
    /\ (pc = "call" /\ ev.after = "ActionListUsers") =>
            /\ pc' = "prompt"
            /\ stack' = Append(stack, [actions |-> callArgs, choice |-> -1])
            /\ ctx' = ctx

\* C8 as claimed: every selection of a valid row of the users page binds
\* userId to the id of that row, changes no other key and returns NEXT, and
\* the interpreter then offers the children whose keys are bound.
C8_Original == [][C8_Select /\ C8_Offer]_vars

\* C8: a selection of a valid row of the users page whose point lookup
\* succeeds binds userId to the id of that row, changes no other key and
\* returns NEXT, and the interpreter then offers exactly the children of List
\* users whose keys are bound in the new Context, in child order.
C8_SelectBindsUser == [][C8_SelectLookedUp /\ C8_Offer]_vars

\* row 2 of a full page was selected: its children are about to be offered
C8_Witness ==
    /\ pc = "call"
    /\ ev.after = "ActionListUsers"
    /\ db.users = 1..pageSize
    /\ "userId" \in DOMAIN ctx
    /\ ctx["userId"] = 2
    /\ callArgs = Children("ActionListUsers")

ListKinds == {"users", "slots", "assign", "devices", "connected"}

\* a step of a list screen that calls no collaborator and ends at the prompt
\* of the same page
C9_Quiet(t) ==
    (pc = "render" /\ scr.kind \in ListKinds /\ tok = t /\ ~scr.showList) =>
        /\ ev'.calls = {}
        /\ pc' = "ask"
        /\ scr'.pageNumber = scr.pageNumber

C9_Step ==
    (/\ pc = "ask" /\ scr.kind \in ListKinds
     /\ tok' = "n" /\ Len(scr.rows) < pageSize) =>
        /\ pc' = "render"
        /\ scr'.pageNumber = scr.pageNumber
        /\ ~scr'.showList
        /\ ev'.calls = {}

\* C9: in every list screen, "n" after a page of fewer than pageSize rows
\* leaves pageNumber as it is and no collaborator is called before the next
\* prompt.
C9_NextOnShortPage == [][C9_Step /\ C9_Quiet("n")]_vars

\* "n" was entered on the only page of three users
C9_Witness ==
    /\ pc = "render"
    /\ scr.kind = "users"
    /\ tok = "n"
    /\ Len(scr.rows) = 3
    /\ scr.pageNumber = 1
    /\ ~scr.showList

C10_Step ==
    (/\ pc = "ask" /\ scr.kind \in ListKinds
     /\ tok' = "p" /\ scr.pageNumber = 1) =>
        /\ pc' = "render"
        /\ scr'.pageNumber = 1
        /\ ~scr'.showList
        /\ ev'.calls = {}

C10_Positive == scr.kind \in ListKinds => scr.pageNumber >= 1

\* C10: in every list screen, "p" on page 1 does not decrement pageNumber,
\* pageNumber is at least 1 in every state of the screen, and no collaborator
\* is called before the next prompt.
C10_PrevOnFirstPage == []C10_Positive /\ [][C10_Step /\ C9_Quiet("p")]_vars

\* "p" was entered on page 1 of the devices list
C10_Witness ==
    /\ pc = "render"
    /\ scr.kind = "devices"
    /\ tok = "p"
    /\ scr.pageNumber = 1
    /\ ~scr.showList

\* the list screens whose prompt accepts a row number
RowKinds == {"users", "slots", "devices", "assign"}

\* the token is a number that is not the number of a row of the page
OutOfRange(t, rows) == Atoi(t).ok /\ Atoi(t).n \notin 1..Len(rows)

C11_Step ==
    (pc = "ask" /\ scr.kind \in RowKinds /\ OutOfRange(tok', scr.rows)) =>
        /\ ctx' = ctx
        /\ pc' = "render"
        /\ scr' = [scr EXCEPT !.showList = FALSE]
        /\ ev'.calls = {}
        /\ failure' = failure

C11_Reprompt ==
    (pc = "render" /\ scr.kind \in RowKinds /\ ~scr.showList) =>
        /\ ctx' = ctx
        /\ pc' = "ask"
        /\ ev'.calls = {}
        /\ failure' = failure

\* C11: in the users, slots, devices and assign-slot screens a row number
\* outside 1..Len(rows) leaves the Context unchanged, keeps the screen
\* running with showList cleared, prompts again without a fetch, and no
\* error leaves the behaviour.
C11_InvalidRowReprompts == [][C11_Step /\ C11_Reprompt]_vars

\* the nodes chosen in the frames under the menu level being offered
NavigationPath == {At(stack[i].actions, stack[i].choice) : i \in 1..(Len(stack) - 1)}

\* the list screen that binds the key
Binder(key) ==
    CASE key = "userId" -> "ActionListUsers"
      [] key = "slotId" -> "ActionListUserBandwidthSlots"
      [] key = "deviceId" -> "ActionListDevices"

\* C12: whenever a menu level is offered, each of userId, slotId and deviceId
\* is bound in the Context if and only if the list screen that binds it is
\* one of the nodes chosen on the way down to that level.
C12_KeyIffOnPath ==
    pc = "prompt" =>
        \A key \in {"userId", "slotId", "deviceId"} :
            (key \in DOMAIN ctx) <=> (Binder(key) \in NavigationPath)

C13_Slots == "BandwidthSlotStore.DeleteByUserId"

C13_Devices == "DeviceStore.DeleteByUserId"

C13_User == "UserStore.Delete"

\* one run of the deregister-user behaviour on the bound user
C13_Step ==
    (Invoking("ActionDeregisterUser") /\ "userId" \in DOMAIN ctx) =>
        LET userId == ctx["userId"]
        IN  /\ ev'.calls \in {{C13_Slots}, {C13_Slots, C13_Devices},
                              {C13_Slots, C13_Devices, C13_User}}
            /\ C13_Devices \in ev'.calls => ByUserId(db'.slots, userId) = {}
            /\ C13_User \in ev'.calls => ByUserId(db'.devices, userId) = {}
            /\ C13_Devices \notin ev'.calls => db'.slots = db.slots
            /\ C13_User \notin ev'.calls => db'.devices = db.devices
            /\ IF res'.err # "nil"
               THEN /\ res'.nav = NEXT
                    /\ db'.users = db.users
                    /\ ctx' = ctx
               ELSE /\ res'.nav = BACK
                    /\ ev'.calls = {C13_Slots, C13_Devices, C13_User}
                    /\ db'.users = db.users \ {userId}
                    /\ ctx' = Delete(ctx, "userId")

\* C13: the deregister-user behaviour deletes the user's slots, then the
\* user's devices, then the user, and stops at the first delete that fails;
\* after a failure the user record is still there, the deletes already made
\* stay, userId stays bound and the error is returned; only after three
\* successful deletes is userId removed and BACK returned.
C13_DeregisterUserOrder == [][C13_Step]_vars

\* the device delete failed for a user who had a slot and a device: the slot
\* is gone, the device and the user are there and userId is bound
C13_Witness ==
    /\ pc = "behaved"
    /\ ev.invoked = "ActionDeregisterUser"
    /\ ev.calls = {C13_Slots, C13_Devices}
    /\ res = [nav |-> NEXT, err |-> "ErrStore"]
    /\ db.users = {1, 2}
    /\ db.slots = {}
    /\ Cardinality(db.devices) = 1
    /\ "userId" \in DOMAIN ctx
    /\ ctx["userId"] = 1

\* the line is a start IP the behaviour rejects
Rejected(t) ==
    /\ t \notin {"", "eof"}
    /\ \/ ~IsValidIPv4Address(t)
       \/ Ip2Int(t) < Ip2Int(MinAddress)
       \/ Ip2Int(t) > Ip2Int(MaxAddress)

C14_Step ==
    (pc = "ip" /\ scr.kind = "assigning" /\ Rejected(tok')) =>
        /\ res' = [nav |-> REPEAT, err |-> "nil"]
        /\ db' = db
        /\ ev'.calls = {}

C14_Stay ==
    (pc = "behaved" /\ Chosen = "ActionAssignSlot" /\ res.nav = REPEAT) =>
        /\ pc' = "prompt"
        /\ stack' = [stack EXCEPT ![Len(stack)].choice = -1]
        /\ failure' = "nil"

\* C14: a start IP that is no IPv4 address, or is under the slot's first
\* address, or over its last, makes the assign-slot behaviour return
\* (REPEAT, nil) without a router entry or a store record, and the
\* interpreter prompts again at the same menu level.
C14_RejectedIpRepeats == [][C14_Step /\ C14_Stay]_vars

\* the positions inside a behaviour
BehaviourPcs == {"invoke", "render", "ask", "bounds", "ip", "num", "mac"}

\* the step had a terminal read that failed, or a store or router call that
\* reported a failure
CollaboratorFailed ==
    \/ tok' = "eof"
    \/ ev'.failed # {}
    \/ res'.err \in {"ErrIO", "ErrStore", "ErrRouter", "ErrNotFound"}

C15_Step ==
    (pc \in BehaviourPcs /\ CollaboratorFailed) =>
        /\ pc' = "behaved"
        /\ res'.err # "nil"

C15_Propagate ==
    /\ (pc = "behaved" /\ res.err # "nil") =>
            pc' \in {"ret", "done"} /\ ret'.err = res.err
    /\ (pc = "ret" /\ ret.err # "nil") =>
            pc' \in {"ret", "done"} /\ ret'.err = ret.err

\* C15: a failure of a store call, a router call or a terminal read during a
\* behaviour makes the behaviour return a non-nil error at once, and every
\* active frame of RunMenuActions returns that error.
C15_CollaboratorFailureFatal == [][C15_Step /\ C15_Propagate]_vars

\* the step reads a field value that is invalid: an empty user name, a line
\* that is no MAC address, a number of devices outside 1..Capacity
InvalidInput ==
    \/ Invoking("ActionRegisterUser") /\ tok' = ""
    \/ pc = "mac" /\ tok' = "x"
    \/ (Invoking("ActionBlockDevice") \/ Invoking("ActionUnblockDevice")) /\ tok' = "x"
    \/ pc = "num" /\ Atoi(tok').ok /\ Atoi(tok').n \notin 1..Capacity

\* C16: an empty user name, an invalid MAC address or a number of devices
\* under 1 or over the slot's capacity never gives an error that leaves the
\* behaviour, so RunMenuActions returns no error because of it.
C16_InvalidInputNotFatal ==
    [][InvalidInput => (res'.err = "nil" /\ failure' = "nil")]_vars

\* the page the screen's fetch returns when it succeeds
FetchedPage ==
    CASE scr.kind = "users" -> UserStoreReadMany(db, pageSize, scr.pageNumber)
      [] scr.kind = "slots" ->
            SlotStoreReadManyByUserId(db, scr.userId, pageSize, scr.pageNumber)
      [] scr.kind = "devices" ->
            IF scr.userIdProvided /\ scr.userId # 0
            THEN DeviceStoreReadManyByUserId(db, scr.userId, pageSize,
                                             scr.pageNumber)
            ELSE DeviceStoreReadMany(db, pageSize, scr.pageNumber)

C17_Store ==
    (/\ pc = "render" /\ scr.kind \in {"users", "slots", "devices"}
     /\ scr.showList /\ scr.pageNumber > 1
     /\ Len(FetchedPage) = 0 /\ res'.err = "nil") =>
        /\ pc' = "ask"
        /\ scr'.pageNumber = scr.pageNumber

\* the router's list: a fetch on a later page that reports no failure ends
\* at the prompt, whatever the number of rows
C17_Router ==
    (/\ pc = "render" /\ scr.kind \in {"assign", "connected"}
     /\ scr.showList /\ scr.pageNumber > 1 /\ res'.err = "nil") =>
        /\ pc' = "ask"
        /\ scr'.pageNumber = scr.pageNumber

\* C17: in every list screen a fetch of a page after the first that returns
\* no rows does not end the screen: the screen goes to its prompt.
C17_EmptyLaterPageStays == [][C17_Store /\ C17_Router]_vars

\* the page of users rendered before the current one
PreviousPage == UserStoreReadMany(db, pageSize, scr.pageNumber - 1)

\* C18: at the prompt of the users list after an empty page that followed a
\* full one, the number of a row of the previous page is not rejected: the
\* user of that row is looked up and, when the lookup succeeds, its id is
\* bound as userId and NEXT is returned.
C18_PreviousPageSelectable ==
    [][(/\ pc = "ask" /\ scr.kind = "users"
        /\ scr.pageNumber > 1 /\ Len(scr.rows) = 0
        /\ ValidRow(tok', PreviousPage)) =>
            /\ pc' = "behaved"
            /\ res'.err = "nil" =>
                    /\ ctx' = Set(ctx, "userId", PreviousPage[Atoi(tok').n])
                    /\ res'.nav = NEXT]_vars

\* the nodes whose behaviour is a list screen
ListNodes ==
    {"ActionListUsers", "ActionListUserBandwidthSlots", "ActionAssignSlot",
     "ActionListDevices", "ActionShowConnectedDevices"}

C19_Quit ==
    (pc = "ask" /\ scr.kind \in ListKinds /\ tok' = "q") =>
        /\ pc' = "behaved"
        /\ res' = [nav |-> REPEAT, err |-> "nil"]
        /\ ctx' = ctx

C19_NoDescent ==
    (pc = "behaved" /\ Chosen \in ListNodes /\ tok = "q") =>
        /\ pc' = "prompt"
        /\ stack' = [stack EXCEPT ![Len(stack)].choice = -1]

\* C19: in every list screen the token "q" ends the screen with REPEAT, and
\* the interpreter prompts again at the level where the screen was chosen
\* without entering the children of the screen's node, whatever the Context
\* holds.
C19_QuitRepeats == [][C19_Quit /\ C19_NoDescent]_vars

\* the key a list screen binds and the point lookup of its store
BoundKey(kind) ==
    CASE kind = "users" -> "userId"
      [] kind = "slots" -> "slotId"
      [] kind = "devices" -> "deviceId"

PointLookup(kind) ==
    CASE kind = "users" -> "UserStore.Read"
      [] kind = "slots" -> "BandwidthSlotStore.Read"
      [] kind = "devices" -> "DeviceStore.Read"

\* the ids the store of the screen holds
StoredIds(kind) ==
    CASE kind = "users" -> db.users
      [] kind = "slots" -> Ids(db.slots)
      [] kind = "devices" -> Ids(db.devices)

C20_Step ==
    (pc = "ask" /\ scr.kind \in {"users", "slots", "devices"}
     /\ ValidRow(tok', scr.rows)) =>
        LET id == scr.rows[Atoi(tok').n]
        IN  /\ pc' = "behaved"
            /\ PointLookup(scr.kind) \in ev'.calls
            /\ IF res'.err = "nil"
               THEN /\ id \in StoredIds(scr.kind)
                    /\ ctx' = Set(ctx, BoundKey(scr.kind), id)
               ELSE ctx' = ctx

\* C20: in the users, slots and devices screens a selection binds the id
\* only after the point lookup of that id in the store has succeeded; when
\* the entity is not in the store the screen returns the not-found error and
\* the Context is unchanged.
C20_BindAfterLookup == [][C20_Step]_vars

\* the ids the store holds for the entities a key names
IdsOfKey(key) ==
    CASE key = "userId" -> db.users
      [] key = "slotId" -> Ids(db.slots)
      [] key = "deviceId" -> Ids(db.devices)

\* C21: in every state of the session each of userId, slotId and deviceId
\* that is bound in the Context is the id of an entity the store holds: a
\* successful delete leaves no key bound to a deleted entity.
C21_NoStaleIds ==
    \A key \in {"userId", "slotId", "deviceId"} :
        key \in DOMAIN ctx => ctx[key] \in IdsOfKey(key)

\* the errors of the gated behaviours' "key not provided" branches
NotProvided ==
    {"user id not provided", "slot id not provided", "device id not provided"}

\* C22: whenever the interpreter is about to invoke the behaviour of the
\* chosen node, every key of that node's RequiresContext is bound in the
\* Context, and no behaviour ever fails with a "... not provided" error.
C22_GatedInvokedBound ==
    /\ pc = "invoke" => AllBound(RequiresContext(Chosen), ctx)
    /\ failure \notin NotProvided
    /\ res.err \notin NotProvided

\* a user-gated behaviour is invoked after ActionDeregisterUser has deleted
\* user 1 and unbound userId: another user has been selected since
C22_Witness ==
    /\ pc = "invoke"
    /\ RequiresContext(Chosen) = <<"userId">>
    /\ AllBound(RequiresContext(Chosen), ctx)
    /\ db.writes > 0
    /\ 1 \notin db.users

\* the three list screens that page through the store
StoreKinds == {"users", "slots", "devices"}

\* N: the records of the store that match the screen's query
Matching ==
    CASE scr.kind = "users" -> Cardinality(db.users)
      [] scr.kind = "slots" -> Cardinality(ByUserId(db.slots, scr.userId))
      [] scr.kind = "devices" ->
            IF scr.userIdProvided /\ scr.userId # 0
            THEN Cardinality(ByUserId(db.devices, scr.userId))
            ELSE Cardinality(db.devices)

C23_Range ==
    scr.kind \in StoreKinds =>
        /\ 1 <= scr.pageNumber
        /\ scr.pageNumber <= (Matching \div pageSize) + 1

C23_Step ==
    (scr.kind \in StoreKinds /\ scr'.kind = scr.kind) =>
        scr'.pageNumber - scr.pageNumber \in {-1, 0, 1}

\* C23: in the users, user-bandwidth-slots and devices list screens over N
\* matching records, pageNumber changes by at most one per step and stays
\* within 1 .. floor(N / pageSize) + 1.
C23_PageNumberInRange == [][C23_Step]_vars /\ []C23_Range

\* the screen stands one page past the last full page: the operator is asked
\* on page floor(N / pageSize) + 1 > 1, whose fetch returned no row
C23_Witness ==
    /\ scr.kind \in StoreKinds
    /\ pc = "ask"
    /\ Matching >= pageSize
    /\ scr.pageNumber = (Matching \div pageSize) + 1
    /\ scr.pageNumber > 1

====
